---- MODULE Spec2Model ----
(***************************************************************************)
(* Model of auto_record_and_pesq.py: voice-triggered capture, cross-       *)
(* correlation alignment against a reference file, and PESQ scoring.       *)
(*                                                                         *)
(* Floating-point samples are modelled exactly as integer multiples of     *)
(* 2^-15 (one 16-bit PCM step); a sample variable holds that multiple.     *)
(* Every such value is exactly representable in float32 and float64, and   *)
(* the location of a correlation maximum does not change under the common  *)
(* positive scale factor.                                                  *)
(***************************************************************************)
EXTENDS Integers, Sequences, FiniteSets, TLC

VARIABLES
    entry,        \* which function of the module is being run
    pc,           \* position of the run
    refExists,    \* os.path.exists(args.reference)
    refRate,      \* sample rate stored in the reference file
    refPcm,       \* 16-bit PCM samples stored in the reference file
    sample_rate,  \* args.sample_rate / rec_sr / sample_rate parameter
    threshold,    \* args.threshold
    nsamples,     \* int(duration * sample_rate)
    chunk,        \* last polled frame of record_with_voice_trigger
    polls,        \* frames polled so far by the listening loop
    audio,        \* rec_audio / deg_audio: the captured (or given) buffer
    corr,         \* corr of align_audio
    lag,          \* lag of align_audio
    offset,       \* offset_sec of align_audio, as <<numerator, denominator>>
    aligned,      \* aligned[:min_len] returned by align_audio
    alignStatus,  \* "none", "ok" or "raised"
    oracle,       \* the arguments of the pesq(...) call, once made
    score,        \* score returned by pesq (thousandths), 0 when none
    files,        \* the working directory: file name -> contents
    number,       \* number of main
    err           \* the exception that ended the run, "none" when none

vars == <<entry, pc, refExists, refRate, refPcm, sample_rate, threshold,
          nsamples, chunk, polls, audio, corr, lag, offset, aligned,
          alignStatus, oracle, score, files, number, err>>

----------------------------------------------------------------------------
(* Bounds of the model *)

MaxRefLen == 2
MaxRecLen == 3
MaxPolls == 2
MaxPrior == 1
FrameLen == 1

(* Sample amplitudes, in PCM steps (multiples of 2^-15 as floats) *)
Levels == {-1, 0, 1}

(* One full scale: the float 1.0 is FullScale PCM steps *)
FullScale == 2^15

(* The factor of the int16 conversion of calculate_pesq *)
Int16Scale == 32767

(* --sample-rate choices *)
Rates == {8000, 16000}

(* --threshold values, in the same unit as the samples *)
Thresholds == {-1, 0, 1}

(* Scores the oracle may return, in thousandths *)
Scores == {1000, 4500}

----------------------------------------------------------------------------
(* Helpers *)

SeqsUpTo(S, n) == UNION {[1..k -> S] : k \in 0..n}

Abs(x) == IF x < 0 THEN -x ELSE x

Min(a, b) == IF a < b THEN a ELSE b

Zeros(n) == [i \in 1..n |-> 0]

RECURSIVE SumOver(_, _)
SumOver(f, S) ==
    IF S = {} THEN 0
    ELSE LET x == CHOOSE y \in S : TRUE
         IN f[x] + SumOver(f, S \ {x})

(* np.abs(chunk).max() *)
Peak(frame) ==
    CHOOSE m \in {Abs(frame[i]) : i \in 1..Len(frame)} :
        \A i \in 1..Len(frame) : Abs(frame[i]) <= m

(* Faulty variants of the loop exit test: a non-strict comparison; no test at all *)
TriggeredAtOrAbove(frame, thr) == Peak(frame) >= thr

TriggeredAlways(frame, thr) == TRUE

(* The loop exit test of record_with_voice_trigger *)
Triggered(frame, thr) == Peak(frame) > thr

(* scipy.signal.correlate(in1, in2, mode='full'): entry k (0-based) is     *)
(* sum_l in1[l] * in2[l - k + len(in2) - 1]; here 1-based.                 *)
Correlate(in1, in2) ==
    LET M == Len(in1)
        N == Len(in2)
    IN [i \in 1..(M + N - 1) |->
          LET S == {a \in 1..M : a - i + N >= 1 /\ a - i + N <= N}
          IN SumOver([a \in S |-> in1[a] * in2[a - i + N]], S)]

(* Faulty variant of np.argmax: the last occurrence of the maximum *)
ArgMaxLast(c) ==
    (CHOOSE i \in 1..Len(c) :
        /\ \A j \in 1..Len(c) : c[j] <= c[i]
        /\ \A j \in (i + 1)..Len(c) : c[j] < c[i]) - 1

(* np.argmax: the 0-based index of the first occurrence of the maximum *)
ArgMax(c) ==
    (CHOOSE i \in 1..Len(c) :
        /\ \A j \in 1..Len(c) : c[j] <= c[i]
        /\ \A j \in 1..(i - 1) : c[j] < c[i]) - 1

(* Faulty variants of the lag: the opposite sign; the offset off by one *)
LagOfNegated(c, ref) == (Len(ref) - 1) - ArgMax(c)

LagOfOffByOne(c, ref) == ArgMax(c) - Len(ref)

(* lag = np.argmax(corr) - (len(ref) - 1) *)
LagOf(c, ref) == ArgMax(c) - (Len(ref) - 1)

(* Faulty variant of the resynchronisation: rec_audio[lag:] whatever the sign of   *)
(* lag (a negative start counts from the end of the buffer)                *)
ResyncSliceOnly(rec, l) ==
    IF l >= 0 THEN SubSeq(rec, l + 1, Len(rec))
    ELSE IF -l >= Len(rec) THEN rec
    ELSE SubSeq(rec, Len(rec) + l + 1, Len(rec))

(* rec_audio[lag:] when lag > 0, else np.pad(rec_audio, (abs(lag), 0)) *)
Resync(rec, l) ==
    IF l > 0 THEN SubSeq(rec, l + 1, Len(rec))
    ELSE Zeros(Abs(l)) \o rec

(* Faulty variant of the truncation: the resynchronised buffer returned whole *)
TruncateNone(a, ref) == a

(* aligned[:min_len] with min_len = min(len(aligned), len(ref)) *)
Truncate(a, ref) == SubSeq(a, 1, Min(Len(a), Len(ref)))

(* sf.read of a 16-bit file: sample p becomes the float p / 2^15, which in  *)
(* the unit of this model (PCM steps) is p steps                           *)
SfRead(pcm) == [i \in 1..Len(pcm) |-> pcm[i]]

(* Faulty variant of the sample-rate guard: the guard left out *)
RateMismatchIgnored(fileRate, rate) == FALSE

(* The sample-rate guard of align_audio and of calculate_pesq *)
RateMismatch(fileRate, rate) == fileRate # rate

(* x / d truncated toward zero *)
TruncDiv(x, d) == IF x >= 0 THEN x \div d ELSE -((-x) \div d)

(* Faulty variant of the int16 conversion: rounding down instead of toward zero *)
ToInt16Floor(s) == (s * Int16Scale) \div FullScale

(* (deg_audio * 32767).astype(np.int16) for one sample of s PCM steps,     *)
(* i.e. the float s / 2^15                                                 *)
ToInt16(s) == TruncDiv(s * Int16Scale, FullScale)

Quantize(deg) == [i \in 1..Len(deg) |-> ToInt16(deg[i])]

(* mode = 'nb' if sample_rate == 8000 else 'wb' *)
ModeOf(rate) == IF rate = 8000 THEN "nb" ELSE "wb"

----------------------------------------------------------------------------
(* The working directory.  A file name Degraded_<n>[_PESQ_<s>][_aligned].wav *)
(* is <<n, s, kind>> with s = 0 when the name embeds no score.               *)

(* Faulty variant of the naming: the _aligned suffix lost *)
FileNameNoSuffix(n, s, kind) == <<n, s, "rec">>

FileName(n, s, kind) == <<n, s, kind>>

WavFile(rate, data) == [rate |-> rate, data |-> data]

(* What m earlier successful runs left behind *)
PriorFiles(m) ==
    [f \in {FileName(k, 4500, kind) : k \in 1..m, kind \in {"rec", "aligned"}}
        |-> WavFile(8000, <<0>>)]

MaxOf(S) == CHOOSE x \in S : \A y \in S : y <= x

get_next_number(dir) ==
    IF DOMAIN dir = {} THEN 1
    ELSE MaxOf({f[1] : f \in DOMAIN dir}) + 1

(* sf.write(name, data, rate): create or overwrite *)
WriteFile(dir, name, content) ==
    [f \in DOMAIN dir \cup {name} |-> IF f = name THEN content ELSE dir[f]]

(* os.rename(old, new) *)
RenameFile(dir, old, new) ==
    [f \in (DOMAIN dir \ {old}) \cup {new} |-> IF f = new THEN dir[old] ELSE dir[f]]

NoOracleCall == [called |-> FALSE, rate |-> 0, ref |-> <<>>, deg |-> <<>>, mode |-> "none"]

----------------------------------------------------------------------------
(* Initial states: a run of main(), or a direct call of align_audio or of   *)
(* calculate_pesq                                                          *)

InitCommon ==
    /\ chunk = <<>>
    /\ polls = 0
    /\ corr = <<>>
    /\ lag = 0
    /\ offset = <<0, 1>>
    /\ aligned = <<>>
    /\ alignStatus = "none"
    /\ oracle = NoOracleCall
    /\ score = 0
    /\ number = 0
    /\ err = "none"

InitMain ==
    /\ entry = "main"
    /\ pc = "idle"
    /\ refExists \in BOOLEAN
    /\ refRate \in Rates
    /\ refPcm \in (IF refExists THEN SeqsUpTo(Levels, MaxRefLen) ELSE {<<>>})
    /\ sample_rate \in Rates
    /\ threshold \in Thresholds
    /\ nsamples \in 0..MaxRecLen
    /\ audio = <<>>
    /\ \E m \in 0..MaxPrior : files = PriorFiles(m)
    /\ InitCommon

InitAlign ==
    /\ entry = "align_audio"
    /\ pc = "call"
    /\ refExists = TRUE
    /\ refRate \in Rates
    /\ refPcm \in SeqsUpTo(Levels, MaxRefLen)
    /\ sample_rate \in Rates
    /\ threshold = 0
    /\ audio \in SeqsUpTo(Levels, MaxRecLen)
    /\ nsamples = Len(audio)
    /\ files = PriorFiles(0)
    /\ InitCommon

(* deg_audio values for a direct call: small amplitudes, half and full scale *)
DegLevels == Levels \cup {-FullScale, -(FullScale \div 2), FullScale \div 2, FullScale}

InitPesq ==
    /\ entry = "calculate_pesq"
    /\ pc = "call"
    /\ refExists = TRUE
    /\ refRate \in Rates
    /\ refPcm \in SeqsUpTo(Levels, MaxRefLen)
    /\ sample_rate \in Rates
    /\ threshold = 0
    /\ audio \in SeqsUpTo(DegLevels, MaxRefLen)
    /\ nsamples = Len(audio)
    /\ files = PriorFiles(0)
    /\ InitCommon

Init == InitMain \/ InitAlign \/ InitPesq

----------------------------------------------------------------------------
(* Actions *)

(* main, up to the try block: the reference must exist *)
Start ==
    /\ entry = "main"
    /\ pc = "idle"
    /\ IF refExists
       THEN /\ number' = get_next_number(files)
            /\ pc' = "listening"
            /\ err' = err
       ELSE /\ number' = number
            /\ pc' = "error"
            /\ err' = "notfound"
    /\ UNCHANGED <<entry, refExists, refRate, refPcm, sample_rate, threshold,
                   nsamples, chunk, polls, audio, corr, lag, offset, aligned,
                   alignStatus, oracle, score, files>>

(* One iteration of the listening loop of record_with_voice_trigger *)
Poll ==
    /\ entry = "main"
    /\ pc = "listening"
    /\ polls < MaxPolls
    /\ \E frame \in [1..FrameLen -> Levels] :
        /\ chunk' = frame
        /\ polls' = polls + 1
        /\ pc' = IF Triggered(frame, threshold) THEN "recording" ELSE "listening"
    /\ UNCHANGED <<entry, refExists, refRate, refPcm, sample_rate, threshold,
                   nsamples, audio, corr, lag, offset, aligned, alignStatus,
                   oracle, score, files, number, err>>

(* The fixed-duration recording, the return of record_with_voice_trigger,  *)
(* and main's save of the recording                                       *)
Record ==
    /\ entry = "main"
    /\ pc = "recording"
    /\ \E a \in [1..nsamples -> Levels] :
        /\ audio' = a
        /\ files' = WriteFile(files, FileName(number, 0, "rec"), WavFile(sample_rate, a))
    /\ chunk' = <<>>
    /\ polls' = 0
    /\ pc' = "aligning"
    /\ UNCHANGED <<entry, refExists, refRate, refPcm, sample_rate, threshold,
                   nsamples, corr, lag, offset, aligned, alignStatus, oracle,
                   score, number, err>>

(* sd.rec / sd.wait raising: caught by main's except *)
DeviceError ==
    /\ entry = "main"
    /\ pc \in {"listening", "recording"}
    /\ pc' = "error"
    /\ err' = "device"
    /\ UNCHANGED <<entry, refExists, refRate, refPcm, sample_rate, threshold,
                   nsamples, chunk, polls, audio, corr, lag, offset, aligned,
                   alignStatus, oracle, score, files, number>>

(* align_audio, and in main the save of the aligned audio *)
AlignAudio ==
    /\ <<entry, pc>> \in {<<"main", "aligning">>, <<"align_audio", "call">>}
    /\ LET ref == SfRead(refPcm)
           c == Correlate(audio, ref)
           l == LagOf(c, ref)
           out == Truncate(Resync(audio, l), ref)
       IN IF RateMismatch(refRate, sample_rate) \/ Len(audio) = 0 \/ Len(ref) = 0
          THEN /\ alignStatus' = "raised"
               /\ err' = IF RateMismatch(refRate, sample_rate) THEN "mismatch" ELSE "empty"
               /\ pc' = IF entry = "main" THEN "error" ELSE "raised"
               /\ UNCHANGED <<corr, lag, offset, aligned, files>>
          ELSE /\ alignStatus' = "ok"
               /\ corr' = c
               /\ lag' = l
               /\ offset' = <<l, refRate>>
               /\ aligned' = out
               /\ files' = IF entry = "main"
                           THEN WriteFile(files, FileName(number, 0, "aligned"),
                                          WavFile(sample_rate, out))
                           ELSE files
               /\ pc' = IF entry = "main" THEN "scoring" ELSE "returned"
               /\ err' = err
    /\ UNCHANGED <<entry, refExists, refRate, refPcm, sample_rate, threshold,
                   nsamples, chunk, polls, audio, oracle, score, number>>

(* The deg_audio argument of calculate_pesq *)
DegAudio == IF entry = "main" THEN aligned ELSE audio

(* calculate_pesq, and in main the renaming of both files; the oracle      *)
(* returns a score or raises (out = 0)                                     *)
CalculatePesq ==
    /\ <<entry, pc>> \in {<<"main", "scoring">>, <<"calculate_pesq", "call">>}
    /\ IF RateMismatch(refRate, sample_rate)
       THEN /\ err' = "mismatch"
            /\ pc' = IF entry = "main" THEN "error" ELSE "raised"
            /\ UNCHANGED <<oracle, score, files>>
       ELSE \E out \in Scores \cup {0} :
            /\ oracle' = [called |-> TRUE, rate |-> sample_rate, ref |-> refPcm,
                          deg |-> Quantize(DegAudio), mode |-> ModeOf(sample_rate)]
            /\ IF out = 0
               THEN /\ err' = "oracle"
                    /\ pc' = IF entry = "main" THEN "error" ELSE "raised"
                    /\ UNCHANGED <<score, files>>
               ELSE /\ score' = out
                    /\ files' = IF entry = "main"
                                THEN RenameFile(
                                       RenameFile(files, FileName(number, 0, "rec"),
                                                  FileName(number, out, "rec")),
                                       FileName(number, 0, "aligned"),
                                       FileName(number, out, "aligned"))
                                ELSE files
                    /\ pc' = IF entry = "main" THEN "done" ELSE "returned"
                    /\ err' = err
    /\ UNCHANGED <<entry, refExists, refRate, refPcm, sample_rate, threshold,
                   nsamples, chunk, polls, audio, corr, lag, offset, aligned,
                   alignStatus, number>>

Next == Start \/ Poll \/ Record \/ DeviceError \/ AlignAudio \/ CalculatePesq

Spec == Init /\ [][Next]_vars

----------------------------------------------------------------------------
(* Properties *)

Ref == SfRead(refPcm)

IsSilent(buf) == \A i \in 1..Len(buf) : buf[i] = 0

(* The captured buffer is the reference with d zero samples in front *)
DelayedBy(d) == audio = Zeros(d) \o Ref

(* Length of the resynchronised capture before truncation *)
ResyncLen == IF lag > 0 THEN Len(audio) - lag ELSE Len(audio) + Abs(lag)

(* C1 as stated: a capture that is the non-zero reference delayed by d >= 1 *)
(* zero samples yields lag_samples = -d.                                   *)
C1_KnownDelayNegative ==
    \A d \in 1..MaxRecLen :
        (alignStatus = "ok" /\ ~IsSilent(Ref) /\ DelayedBy(d)) => lag = -d

(* C1 amended: a capture that is the non-zero reference delayed by d >= 1  *)
(* zero samples yields lag_samples = +d exactly, and the d leading zeros   *)
(* are dropped.                                                            *)
C1_KnownDelayPositive ==
    \A d \in 1..MaxRecLen :
        (alignStatus = "ok" /\ ~IsSilent(Ref) /\ DelayedBy(d)) =>
            /\ lag = d
            /\ aligned = Ref

C1_Witness ==
    /\ alignStatus = "ok"
    /\ Len(refPcm) = 2
    /\ refPcm[1] # 0
    /\ DelayedBy(1)
    /\ lag = 1

(* C2 as stated: aligning any non-empty reference, silent ones included,   *)
(* against a copy of itself yields lag 0, offset 0 and the input back.     *)
C2_SelfAlignmentAll ==
    (alignStatus = "ok" /\ audio = Ref) =>
        /\ lag = 0
        /\ offset[1] = 0
        /\ aligned = audio

(* C2 amended: aligning a reference that has a non-zero sample against a   *)
(* copy of itself yields lag 0 and offset 0; a silent reference of n       *)
(* samples yields lag -(n - 1); in both cases the aligned output equals    *)
(* the input sample for sample.                                            *)
C2_SelfAlignment ==
    (alignStatus = "ok" /\ audio = Ref) =>
        /\ ~IsSilent(Ref) => (lag = 0 /\ offset[1] = 0)
        /\ IsSilent(Ref) => (lag = -(Len(Ref) - 1) /\ offset[1] = lag)
        /\ offset[2] = refRate
        /\ aligned = audio

C2_Witness ==
    /\ alignStatus = "ok"
    /\ audio = Ref
    /\ Len(Ref) = 2
    /\ Ref[1] # 0
    /\ Ref[2] # 0
    /\ lag = 0
    /\ aligned = audio

(* C3: after a successful alignment the aligned buffer has length          *)
(* min(len(ref), len(captured) - lag) when lag > 0 and                     *)
(* min(len(ref), len(captured) + |lag|) otherwise; it is never longer than *)
(* the reference and never empty.                                          *)
C3_LengthInvariant ==
    alignStatus = "ok" =>
        /\ Len(aligned) = IF lag > 0
                          THEN Min(Len(Ref), Len(audio) - lag)
                          ELSE Min(Len(Ref), Len(audio) + Abs(lag))
        /\ Len(aligned) <= Len(Ref)
        /\ Len(aligned) >= 1
        /\ \A i \in 1..Len(aligned) :
              aligned[i] = IF i + lag >= 1 THEN audio[i + lag] ELSE 0

C3_Witness ==
    /\ alignStatus = "ok"
    /\ lag > 0
    /\ Len(aligned) = Len(audio) - lag
    /\ Len(aligned) < Len(Ref)

(* C4: when the reference file's rate differs from the configured rate,    *)
(* no correlation, aligned buffer, offset, oracle call or score is ever    *)
(* produced, a finished call has raised the mismatch error, and a run of   *)
(* main never gets past alignment other than into the error outcome.       *)
C4_MismatchRejected ==
    refRate # sample_rate =>
        /\ corr = <<>>
        /\ aligned = <<>>
        /\ offset = <<0, 1>>
        /\ alignStatus # "ok"
        /\ ~oracle.called
        /\ score = 0
        /\ pc \notin {"scoring", "done", "returned"}
        /\ pc = "raised" => err = "mismatch"
        /\ alignStatus = "raised" => err = "mismatch"
        /\ (entry = "main" /\ alignStatus = "raised") => pc = "error"
        /\ \A f \in DOMAIN files : f[1] = number => f = FileName(number, 0, "rec")

C4_Witness ==
    /\ entry = "main"
    /\ refRate # sample_rate
    /\ pc = "error"
    /\ err = "mismatch"
    /\ alignStatus = "raised"
    /\ FileName(number, 0, "rec") \in DOMAIN files

(* q is x / 2^15 * 32767 with the fraction discarded (toward zero) *)
IsTruncation(q, x) ==
    /\ Abs(q) * FullScale <= Abs(x) * Int16Scale
    /\ Abs(x) * Int16Scale < (Abs(q) + 1) * FullScale
    /\ (x >= 0 => q >= 0)
    /\ (x <= 0 => q <= 0)

(* q is an integer nearest to x / 2^15 * 32767 *)
IsNearest(q, x) == 2 * Abs(q * FullScale - x * Int16Scale) <= FullScale

(* C5 as stated: every 16-bit value handed to the oracle is the degraded   *)
(* sample times 32767 rounded to the nearest integer, within the int16     *)
(* range.                                                                  *)
C5_QuantizeRounds ==
    oracle.called =>
        /\ Len(oracle.deg) = Len(DegAudio)
        /\ \A i \in 1..Len(DegAudio) :
              /\ IsNearest(oracle.deg[i], DegAudio[i])
              /\ oracle.deg[i] \in -32768..32767

(* C5 amended: every 16-bit value handed to the oracle is the degraded     *)
(* sample times 32767 with the fractional part discarded (truncated toward *)
(* zero), which lies in [-32767, 32767].                                   *)
C5_QuantizeTruncates ==
    oracle.called =>
        /\ Len(oracle.deg) = Len(DegAudio)
        /\ \A i \in 1..Len(DegAudio) :
              /\ IsTruncation(oracle.deg[i], DegAudio[i])
              /\ oracle.deg[i] \in -32767..32767

C5_Witness ==
    /\ oracle.called
    /\ \E i \in 1..Len(DegAudio) :
          DegAudio[i] = -(FullScale \div 2) /\ oracle.deg[i] = -16383
    /\ \E i \in 1..Len(DegAudio) :
          DegAudio[i] = FullScale /\ oracle.deg[i] = 32767

(* C6 as stated: with a threshold of 0 or below, the listening loop is     *)
(* left after the first polled frame, whatever the frame holds.            *)
C6_NonPositiveTriggersAtOnce ==
    (entry = "main" /\ threshold <= 0 /\ polls >= 1) =>
        (pc # "listening" /\ polls = 1)

(* C6 amended: with a negative threshold the listening loop is left after  *)
(* the first polled frame, whatever the frame holds; with a threshold of 0 *)
(* it is left after the first frame that holds a non-zero sample, and an   *)
(* all-zero frame keeps it listening.                                      *)
C6_TriggerAtThreshold ==
    entry = "main" =>
        /\ (threshold < 0 /\ polls >= 1) => (pc # "listening" /\ polls = 1)
        /\ (threshold = 0 /\ polls >= 1 /\ pc = "listening") => IsSilent(chunk)
        /\ (threshold = 0 /\ pc = "recording") => ~IsSilent(chunk)

C6_Witness ==
    /\ entry = "main"
    /\ threshold = 0
    /\ pc = "recording"
    /\ polls = 2
    /\ ~IsSilent(chunk)

(* The files this run has written so far, under their first names *)
RecName == FileName(number, 0, "rec")

AlignedName == FileName(number, 0, "aligned")

(* C7: when alignment or scoring has failed, the recording (and the        *)
(* aligned file, when alignment had succeeded) is still there under its    *)
(* first name with the contents written, no file name of this run embeds a *)
(* score, earlier files are untouched, and no score is reported.           *)
C7_FailureKeepsFiles ==
    (entry = "main" /\ pc = "error" /\ err \in {"mismatch", "empty", "oracle"}) =>
        /\ RecName \in DOMAIN files
        /\ files[RecName] = WavFile(sample_rate, audio)
        /\ alignStatus = "ok" =>
              /\ AlignedName \in DOMAIN files
              /\ files[AlignedName] = WavFile(sample_rate, aligned)
        /\ alignStatus # "ok" => AlignedName \notin DOMAIN files
        /\ \A f \in DOMAIN files : f[1] = number => f[2] = 0
        /\ \A f \in DOMAIN files : f[1] # number => files[f] = WavFile(8000, <<0>>)
        /\ Cardinality({f \in DOMAIN files : f[1] # number}) = 2 * (number - 1)
        /\ score = 0

C7_Witness ==
    /\ entry = "main"
    /\ pc = "error"
    /\ err = "oracle"
    /\ number = 2
    /\ alignStatus = "ok"
    /\ aligned # audio
    /\ files[RecName] = WavFile(sample_rate, audio)
    /\ files[AlignedName] = WavFile(sample_rate, aligned)

(* The stage after each stage of a run of main *)
StageAfter ==
    [s \in {"idle", "listening", "recording", "aligning", "scoring"} |->
        CASE s = "idle" -> "listening"
          [] s = "listening" -> "recording"
          [] s = "recording" -> "aligning"
          [] s = "aligning" -> "scoring"
          [] s = "scoring" -> "done"]

(* C8: a run of main moves only from a stage to the next one of IDLE,      *)
(* LISTENING, RECORDING, ALIGNING, SCORING, DONE, or stays listening, or   *)
(* ends in ERROR; recording starts only on a polled frame whose peak       *)
(* exceeds the threshold, scoring only after a successful alignment, and   *)
(* nothing follows DONE or ERROR.                                          *)
C8_StageOrder ==
    [][entry = "main" =>
        /\ pc \notin {"done", "error"}
        /\ \/ pc' = StageAfter[pc]
           \/ pc' = "error"
           \/ pc = "listening" /\ pc' = "listening"
        /\ pc' = "recording" =>
              \E i \in 1..Len(chunk') : Abs(chunk'[i]) > threshold
        /\ pc' = "listening" /\ pc = "listening" =>
              \A i \in 1..Len(chunk') : Abs(chunk'[i]) <= threshold
        /\ pc' = "scoring" => alignStatus' = "ok" /\ refRate = sample_rate
        /\ pc' = "done" => score' > 0]_vars

C8_Witness ==
    /\ entry = "main"
    /\ pc = "done"
    /\ score > 0
    /\ alignStatus = "ok"
    /\ oracle.called

(* The 0-based index the lag was computed from *)
BestIndex == lag + (Len(Ref) - 1)

(* C9 as stated: the index used for the lag is the smallest index at which *)
(* the correlation attains its maximum absolute value.                     *)
C9_PeakByMagnitude ==
    alignStatus = "ok" =>
        /\ BestIndex + 1 \in 1..Len(corr)
        /\ \A j \in 1..Len(corr) : Abs(corr[j]) <= Abs(corr[BestIndex + 1])
        /\ \A j \in 1..BestIndex : Abs(corr[j]) < Abs(corr[BestIndex + 1])

(* C9 amended: the index used for the lag is the smallest index at which   *)
(* the full linear cross-correlation attains its maximum signed value (a   *)
(* negative correlation is never selected over a larger signed value; ties *)
(* go to the first occurrence).                                            *)
C9_PeakBySignedValue ==
    alignStatus = "ok" =>
        /\ Len(corr) = Len(audio) + Len(Ref) - 1
        /\ BestIndex + 1 \in 1..Len(corr)
        /\ \A j \in 1..Len(corr) : corr[j] <= corr[BestIndex + 1]
        /\ \A j \in 1..BestIndex : corr[j] < corr[BestIndex + 1]

C9_Witness ==
    /\ alignStatus = "ok"
    /\ \E j \in (BestIndex + 2)..Len(corr) : corr[j] = corr[BestIndex + 1]
    /\ \E j \in 1..Len(corr) : -corr[j] > corr[BestIndex + 1]

(* C10 as stated: the reference and the degraded sequence handed to the    *)
(* oracle have the same length, the shorter of the resynchronised capture  *)
(* and the reference.                                                      *)
C10_EqualLengthOracleInput ==
    (entry = "main" /\ oracle.called) =>
        /\ Len(oracle.ref) = Len(oracle.deg)
        /\ Len(oracle.deg) = Min(ResyncLen, Len(refPcm))

(* C10 amended: the degraded sequence handed to the oracle has the length  *)
(* of the shorter of the resynchronised capture and the reference; the     *)
(* reference is handed over whole, as read from the file, so the two       *)
(* lengths are equal exactly when the resynchronised capture is at least   *)
(* as long as the reference, and the degraded one is shorter otherwise.    *)
C10_OracleInputLengths ==
    (entry = "main" /\ oracle.called) =>
        /\ Len(oracle.deg) = Min(ResyncLen, Len(refPcm))
        /\ oracle.ref = refPcm
        /\ (Len(oracle.ref) = Len(oracle.deg)) = (ResyncLen >= Len(refPcm))
        /\ Len(oracle.deg) <= Len(oracle.ref)

C10_Witness ==
    /\ entry = "main"
    /\ oracle.called
    /\ pc = "done"
    /\ ResyncLen < Len(refPcm)
    /\ Len(oracle.deg) = ResyncLen
    /\ Len(oracle.ref) = Len(refPcm)

====
